---------------------------- MODULE Spec2Model ----------------------------
(***************************************************************************)
(* A model of release.py: the reduction of a commit sequence to a version  *)
(* bump (evaluate_version_bump), the changelog index (generate_changelog), *)
(* its rendering (markdown_changelog) and the release run (main).          *)
(*                                                                         *)
(* Text is a sequence of one-character strings, so that replace, upper and *)
(* capitalize act on characters as they do in Python.  A dict is the       *)
(* sequence of its (key, items) pairs in insertion order.                  *)
(***************************************************************************)
EXTENDS Integers, Sequences, FiniteSets, TLC

VARIABLES
    pc,              \* position of the run (main), or of the function calls
    commit_parser,   \* the parser passed as commit_parser
    feed,            \* items the forge's commit iterator has yet to yield
    tag_hash,        \* main: hash of the commit the current tag points at
    commits,         \* main: commits collected so far; functions: the argument
    version_file,    \* content of the file version_number
    current_version, \* main: what was read from the version file
    bump,            \* result of evaluate_version_bump
    next_version,    \* main: get_new_version(current_version, bump)
    changes,         \* result of generate_changelog
    md,              \* result of markdown_changelog
    calls,           \* main: the mutating git calls and the forge calls after
                     \* the bump decision, in the order they were issued
    writes,          \* main: number of calls of version_file.write_text
    attempts,        \* main: tag-list queries issued by the poll
    all_tags,        \* main: the tag names of the last tag-list reply
    exit_code        \* main: -1 while running, then the process exit code

vars == <<pc, commit_parser, feed, tag_hash, commits, version_file,
          current_version, bump, next_version, changes, md, calls, writes,
          attempts, all_tags, exit_code>>

----------------------------------------------------------------------------
(* Bounds of the model *)

\* longest commit sequence handed to the three functions
MaxLen == 3
\* longest freely mixed head of a forge history in a run of main
MaxHead == 1
\* version files hold v.(v+1).(v+2) for v in 0..MaxVer
MaxVer == 1
\* most entries under one key of a changelog passed to markdown_changelog
MaxItems == 2

(* Constants of the program *)

\* main: "if len(commits) > 100"
MaxCommits == 100
\* main: "for _ in range(5)"
PollAttempts == 5
\* generate_changelog: "elif message.bump == 3"
BreakingBump == 3

\* Python's None
None == "None"

----------------------------------------------------------------------------
(* Characters and text *)

Lowers == <<"a","b","c","d","e","f","g","h","i","j","k","l","m",
            "n","o","p","q","r","s","t","u","v","w","x","y","z">>
Uppers == <<"A","B","C","D","E","F","G","H","I","J","K","L","M",
            "N","O","P","Q","R","S","T","U","V","W","X","Y","Z">>

\* str.upper() on one character
Upper(ch) ==
    IF \E i \in DOMAIN Lowers : Lowers[i] = ch
    THEN Uppers[CHOOSE i \in DOMAIN Lowers : Lowers[i] = ch]
    ELSE ch

\* str.lower() on one character
Lower(ch) ==
    IF \E i \in DOMAIN Uppers : Uppers[i] = ch
    THEN Lowers[CHOOSE i \in DOMAIN Uppers : Uppers[i] = ch]
    ELSE ch

\* s[0].upper() + s[1:]   (s is not empty: the parser's summary never is)
UpperFirst(s) == <<Upper(s[1])>> \o SubSeq(s, 2, Len(s))

\* str.capitalize(): first character upper-cased, the rest lower-cased
Capitalize(s) ==
    [i \in DOMAIN s |-> IF i = 1 THEN Upper(s[i]) ELSE Lower(s[i])]

Digits == <<"0","1","2","3","4","5","6","7","8","9">>

\* "MAJOR.MINOR.PATCH" of a version triple (components below 10)
VersionText(v) == <<Digits[v[1] + 1], ".", Digits[v[2] + 1], ".", Digits[v[3] + 1]>>

\* int() of a digit
Value(ch) == CHOOSE n \in 0..9 : Digits[n + 1] = ch

\* the triple a text "MAJOR.MINOR.PATCH" stands for
VersionOf(text) == <<Value(text[1]), Value(text[3]), Value(text[5])>>

----------------------------------------------------------------------------
(* Commit messages of the model, as the forge returns them *)

M_wip      == <<"w","i","p">>
M_chore    == <<"c","h","o","r","e",":"," ","x">>
M_fix      == <<"f","i","x",":"," ","t","y","p","o">>
M_fix_cr   == <<"f","i","x",":"," ","t","y","p","o","\r">>
M_fix_nl   == <<"f","i","x",":"," ","t","y","p","o","\n">>
M_feat     == <<"f","e","a","t",":"," ","a","d","d">>
M_bang     == <<"f","e","a","t","!",":"," ","D","r","o","p">>
M_trailer  == <<"f","i","x",":"," ","y","\n","\n",
                "B","R","E","A","K","I","N","G"," ",
                "C","H","A","N","G","E",":"," ","z">>
M_reserved == <<"b","r","e","a","k","i","n","g",":"," ","q">>
M_reserved_bang == <<"b","r","e","a","k","i","n","g","!",":"," ","r">>
M_sec      == <<"s","e","c",":"," ","p">>

T_chore    == <<"c","h","o","r","e">>
T_fix      == <<"f","i","x">>
T_feat     == <<"f","e","a","t">>
T_sec      == <<"s","e","c">>
\* the key generate_changelog creates before reading any commit
BREAKING   == <<"b","r","e","a","k","i","n","g">>

D_trailer  == <<"B","R","E","A","K","I","N","G"," ",
                "C","H","A","N","G","E",":"," ","z">>

----------------------------------------------------------------------------
(* The commit parser (semantic_release, imported): its result on the        *)
(* messages of the model.  ok = FALSE is UnknownCommitMessageStyleError.    *)
(* The summary of a message is never empty, so descriptions[1] has a first  *)
(* character.                                                               *)

Parsed(b, t, ds, bs) ==
    [ok |-> TRUE, bump |-> b, type |-> t, descriptions |-> ds,
     breaking_descriptions |-> bs]

Unknown ==
    [ok |-> FALSE, bump |-> 0, type |-> <<>>, descriptions |-> <<>>,
     breaking_descriptions |-> <<>>]

\* semantic_release.history.angular_parser
angular_parser(message) ==
    CASE message = M_chore    -> Parsed(0, T_chore, << <<"x">> >>, <<>>)
      [] message = M_fix      -> Parsed(1, T_fix, << <<"t","y","p","o">> >>, <<>>)
      [] message = M_fix_nl   -> Parsed(1, T_fix, << <<"t","y","p","o">> >>, <<>>)
      [] message = M_fix_cr   -> Parsed(1, T_fix, << <<"t","y","p","o","\r">> >>, <<>>)
      [] message = M_feat     -> Parsed(2, T_feat, << <<"a","d","d">> >>, <<>>)
      [] message = M_bang     -> Parsed(3, T_feat, << <<"D","r","o","p">> >>, <<>>)
      [] message = M_trailer  -> Parsed(3, T_fix, << <<"y">>, D_trailer >>, << <<"z">> >>)
      [] OTHER                -> Unknown

\* a parser a caller passes as commit_parser: the angular grammar with any
\* word as a type, and a severity above the three levels for the type "sec"
custom_parser(message) ==
    CASE message = M_sec           -> Parsed(4, T_sec, << <<"p">> >>, <<>>)
      [] message = M_reserved      -> Parsed(0, BREAKING, << <<"q">> >>, <<>>)
      [] message = M_reserved_bang -> Parsed(3, BREAKING, << <<"r">> >>, <<>>)
      [] OTHER                     -> angular_parser(message)

Parse(parser, message) ==
    IF parser = "custom" THEN custom_parser(message) ELSE angular_parser(message)

\* semantic_release.history.logs.LEVELS
LEVELS == (1 :> "patch") @@ (2 :> "minor") @@ (3 :> "major")

\* semantic_release.history.get_new_version: text in, text out
get_new_version(version, level) ==
    LET v == VersionOf(version)
    IN  CASE level = "major" -> VersionText(<<v[1] + 1, 0, 0>>)
          [] level = "minor" -> VersionText(<<v[1], v[2] + 1, 0>>)
          [] level = "patch" -> VersionText(<<v[1], v[2], v[3] + 1>>)
          [] OTHER           -> version

----------------------------------------------------------------------------
(* class Commit *)

\* Commit._normalize: message.replace("\r", "\n")
Normalize(message) ==
    [i \in DOMAIN message |-> IF message[i] = "\r" THEN "\n" ELSE message[i]]

\* Commit.__init__
Commit(sha, message) == [sha |-> sha, message |-> Normalize(message)]

----------------------------------------------------------------------------
(* evaluate_version_bump *)

\* the loop "for commit in commits" over commits lo..hi: what it appends to the
\* list changes.  (The loops of this module are split in halves, which leaves
\* the order of the iterations as it is and keeps the evaluation shallow.)
RECURSIVE CollectBumps(_, _, _, _)
CollectBumps(cs, parser, lo, hi) ==
    IF lo > hi THEN <<>>
    ELSE IF lo = hi
         THEN LET message == Parse(parser, cs[lo].message)
              IN  IF message.ok THEN <<message.bump>> ELSE <<>>
         ELSE LET mid == (lo + hi) \div 2
              IN  CollectBumps(cs, parser, lo, mid)
                    \o CollectBumps(cs, parser, mid + 1, hi)

\* PyMaxIn with the comparison lost: the last element wins
PyMaxLast(xs, lo, hi) == xs[hi]

\* max(xs[lo..hi]), as the builtin computes it: a later element replaces the
\* best so far only when it is larger
RECURSIVE PyMaxIn(_, _, _)
PyMaxIn(xs, lo, hi) ==
    IF lo = hi THEN xs[lo]
    ELSE LET mid    == (lo + hi) \div 2
             first  == PyMaxIn(xs, lo, mid)
             second == PyMaxIn(xs, mid + 1, hi)
         IN  IF second > first THEN second ELSE first

PyMax(xs) == PyMaxIn(xs, 1, Len(xs))

\* "if level in LEVELS: bump = LEVELS[level]", else the warning, bump stays None
LevelOf(level) == IF level \in DOMAIN LEVELS THEN LEVELS[level] ELSE None

evaluate_version_bump(cs, parser) ==
    LET collected == CollectBumps(cs, parser, 1, Len(cs))
    IN  IF collected # <<>> THEN LevelOf(PyMax(collected)) ELSE None

----------------------------------------------------------------------------
(* generate_changelog *)

HasKey(d, k) == \E i \in DOMAIN d : d[i].key = k

Items(d, k) ==
    IF HasKey(d, k) THEN d[CHOOSE i \in DOMAIN d : d[i].key = k].items ELSE <<>>

\* d[k] = list() for a key that is not in d
AddKey(d, k) == Append(d, [key |-> k, items |-> <<>>])

\* d[k].append(item)
AppendItem(d, k, item) ==
    LET i == CHOOSE j \in DOMAIN d : d[j].key = k
    IN  [d EXCEPT ![i].items = Append(@, item)]

\* changes[k].append((sha, p)) for each p of paragraphs[from..], in order
RECURSIVE AppendParagraphs(_, _, _, _, _)
AppendParagraphs(d, k, sha, paragraphs, from) ==
    IF from > Len(paragraphs) THEN d
    ELSE AppendParagraphs(AppendItem(d, k, <<sha, paragraphs[from]>>),
                          k, sha, paragraphs, from + 1)

\* BreakingFallback with the elif branch missing
BreakingFallbackMissing(d, commit, message) == d

\* what a commit of severity 3 without breaking paragraphs adds to "breaking"
BreakingFallback(d, commit, message) ==
    IF message.bump = BreakingBump
    THEN AppendItem(d, BREAKING, <<commit.sha, message.descriptions[1]>>)
    ELSE d

\* the body of "for commit in commits" for one commit
ChangelogStep(d, commit, parser) ==
    LET message == Parse(parser, commit.message)
    IN  IF ~message.ok THEN d
        ELSE LET d1 == IF HasKey(d, message.type) THEN d ELSE AddKey(d, message.type)
                 capital_message == UpperFirst(message.descriptions[1])
                 d2 == AppendItem(d1, message.type, <<commit.sha, capital_message>>)
             IN  IF message.breaking_descriptions # <<>>
                 THEN AppendParagraphs(d2, BREAKING, commit.sha,
                                       message.breaking_descriptions, 1)
                 ELSE BreakingFallback(d2, commit, message)

\* "for commit in commits" over commits lo..hi, from the dict d.  The first
\* half is complete (and holds its "breaking" key) before the second starts.
RECURSIVE ChangelogLoop(_, _, _, _, _)
ChangelogLoop(d, cs, parser, lo, hi) ==
    IF lo > hi THEN d
    ELSE IF lo = hi THEN ChangelogStep(d, cs[lo], parser)
         ELSE LET mid   == (lo + hi) \div 2
                  first == ChangelogLoop(d, cs, parser, lo, mid)
              IN  IF HasKey(first, BREAKING)
                  THEN ChangelogLoop(first, cs, parser, mid + 1, hi)
                  ELSE first

\* "changes: dict = {"breaking": []}"
EmptyChangelog == << [key |-> BREAKING, items |-> <<>>] >>

generate_changelog(cs, parser) ==
    ChangelogLoop(EmptyChangelog, cs, parser, 1, Len(cs))

----------------------------------------------------------------------------
(* markdown_changelog: the output as its lines *)

VersionLine(version) == [kind |-> "##", text |-> <<"v">> \o version, sha |-> 0]
SectionLine(section) == [kind |-> "###", text |-> Capitalize(section), sha |-> 0]
ItemLine(item)       == [kind |-> "*", text |-> item[2], sha |-> item[1]]

\* SkipSection with the test missing: every key gets its header
SkipSectionNever(items) == FALSE

\* "if len(items) == 0: continue"
SkipSection(items) == Len(items) = 0

\* "for item in items": one line for each, in order
ItemLines(items) == [n \in 1..Len(items) |-> ItemLine(items[n])]

\* the output after the first n sections of the changelog
RECURSIVE SectionLines(_, _)
SectionLines(changelog, n) ==
    IF n = 0 THEN <<>>
    ELSE LET before == SectionLines(changelog, n - 1)
             items  == changelog[n].items
         IN  IF SkipSection(items) THEN before
             ELSE Append(before, SectionLine(changelog[n].key))
                    \o ItemLines(items)

markdown_changelog(version, changelog, header) ==
    (IF header THEN <<VersionLine(version)>> ELSE <<>>)
        \o SectionLines(changelog, Len(changelog))

----------------------------------------------------------------------------
(* Inputs *)

\* messages of the commit sequences handed to the functions
FnMessages ==
    {M_wip, M_chore, M_fix, M_feat, M_bang, M_trailer,
     M_reserved, M_reserved_bang, M_sec}

\* messages of the forge history in a run of main
MainMessages ==
    {M_wip, M_chore, M_fix, M_fix_cr, M_feat, M_bang, M_trailer, M_reserved}

\* the message of the commits that fill a long history
Filler == M_chore

Versions == {VersionText(<<v, v + 1, v + 2>>) : v \in 0..MaxVer}

MessageSeqs(S, n) == UNION {[1..k -> S] : k \in 0..n}

\* the commits with these messages, the i-th with hash i
CommitsOf(messages) == [i \in DOMAIN messages |-> Commit(i, messages[i])]

\* the forge's items for the commits since the tag, newest first: the head,
\* then filler commits up to `total` items
Since(head, total) ==
    [i \in 1..total |->
        [sha |-> i, message |-> IF i <= Len(head) THEN head[i] ELSE Filler]]

\* a changelog a caller passes to markdown_changelog: three keys, each with
\* up to MaxItems entries
SampleItems(k, n) == [j \in 1..n |-> <<10 * k + j, <<"e", Digits[j + 1]>> >>]

SampleChangelogs ==
    {<< [key |-> BREAKING, items |-> SampleItems(1, a)],
        [key |-> T_fix,    items |-> SampleItems(2, b)],
        [key |-> T_feat,   items |-> SampleItems(3, c)] >> :
        a \in 0..MaxItems, b \in 0..MaxItems, c \in 0..MaxItems}

----------------------------------------------------------------------------
(* The three functions, called one after the other on the same commits *)

InitFn ==
    /\ pc = "args"
    /\ commit_parser \in {"angular", "custom"}
    /\ commits \in {CommitsOf(ms) : ms \in MessageSeqs(FnMessages, MaxLen)}
    /\ next_version = VersionText(<<0, 0, 0>>)
    /\ feed = <<>>
    /\ tag_hash = 0
    /\ version_file = VersionText(<<0, 0, 0>>)
    /\ current_version = VersionText(<<0, 0, 0>>)
    /\ bump = None
    /\ changes = <<>>
    /\ md = <<>>
    /\ calls = <<>>
    /\ writes = 0
    /\ attempts = 0
    /\ all_tags = {}
    /\ exit_code = -1

FnEvaluate ==
    /\ pc = "args"
    /\ bump' = evaluate_version_bump(commits, commit_parser)
    /\ pc' = "evaluated"
    /\ UNCHANGED <<commit_parser, feed, tag_hash, commits, version_file,
                   current_version, next_version, changes, md, calls, writes,
                   attempts, all_tags, exit_code>>

FnGenerate ==
    /\ pc = "evaluated"
    /\ changes' = generate_changelog(commits, commit_parser)
    /\ pc' = "generated"
    /\ UNCHANGED <<commit_parser, feed, tag_hash, commits, version_file,
                   current_version, bump, next_version, md, calls, writes,
                   attempts, all_tags, exit_code>>

\* markdown_changelog is handed a changelog built by another caller (taken
\* once, from the state without commits)
FnPass ==
    /\ pc = "evaluated"
    /\ commits = <<>>
    /\ commit_parser = "angular"
    /\ changes' \in SampleChangelogs
    /\ pc' = "passed"
    /\ UNCHANGED <<commit_parser, feed, tag_hash, commits, version_file,
                   current_version, bump, next_version, md, calls, writes,
                   attempts, all_tags, exit_code>>

FnRender ==
    /\ pc \in {"generated", "passed"}
    /\ \E header \in BOOLEAN, version \in Versions :
          /\ header \/ version = VersionText(<<0, 1, 2>>)
          /\ next_version' = version
          /\ md' = markdown_changelog(version, changes, header)
          /\ pc' = IF header THEN "rendered_header" ELSE "rendered"
    /\ UNCHANGED <<commit_parser, feed, tag_hash, commits, version_file,
                   current_version, bump, changes, calls, writes,
                   attempts, all_tags, exit_code>>

NextFn == FnEvaluate \/ FnGenerate \/ FnPass \/ FnRender

SpecFn == InitFn /\ [][NextFn]_vars

----------------------------------------------------------------------------
(* main: one release run *)

\* the items the forge yields from HEAD backwards: the commits since the tag,
\* then (when the tag is an ancestor of HEAD) the tag's commit and an older one
History(head, total, reachable) ==
    Since(head, total) \o
        (IF reachable
         THEN << [sha |-> total + 1, message |-> M_feat],
                 [sha |-> total + 2, message |-> M_fix] >>
         ELSE <<>>)

Init ==
    /\ pc = "start"
    /\ commit_parser = "angular"
    /\ \E head \in MessageSeqs(MainMessages, MaxHead),
          long \in {0, MaxCommits, MaxCommits + 1},
          reachable \in BOOLEAN :
          /\ feed = History(head, IF long = 0 THEN Len(head) ELSE long, reachable)
          /\ tag_hash = (IF long = 0 THEN Len(head) ELSE long) + 1
    /\ version_file \in Versions
    /\ commits = <<>>
    /\ current_version = VersionText(<<0, 0, 0>>)
    /\ bump = None
    /\ next_version = VersionText(<<0, 0, 0>>)
    /\ changes = <<>>
    /\ md = <<>>
    /\ calls = <<>>
    /\ writes = 0
    /\ attempts = 0
    /\ all_tags = {}
    /\ exit_code = -1

\* an exception no one catches ends the process with exit code 1
Raise ==
    /\ pc' = "failed"
    /\ exit_code' = 1

\* version_file.read_text(), git rev-list, git rev-parse, get_repo, gh.getiter
Start ==
    /\ pc = "start"
    /\ current_version' = version_file
    /\ \E ok \in BOOLEAN :
          IF ok THEN pc' = "fetch" /\ exit_code' = exit_code ELSE Raise
    /\ UNCHANGED <<commit_parser, feed, tag_hash, commits, version_file, bump,
                   next_version, changes, md, calls, writes, attempts, all_tags>>

\* "async for item in commits_iter" yields a commit that is not the tag's
FetchCommit ==
    /\ pc = "fetch"
    /\ feed # <<>>
    /\ Head(feed).sha # tag_hash
    /\ commits' = Append(commits, Commit(Head(feed).sha, Head(feed).message))
    /\ feed' = Tail(feed)
    /\ UNCHANGED <<pc, commit_parser, tag_hash, version_file, current_version,
                   bump, next_version, changes, md, calls, writes, attempts,
                   all_tags, exit_code>>

\* "if commit_hash == tag_hash: break"
FetchTag ==
    /\ pc = "fetch"
    /\ feed # <<>>
    /\ Head(feed).sha = tag_hash
    /\ feed' = Tail(feed)
    /\ pc' = "cap"
    /\ UNCHANGED <<commit_parser, tag_hash, commits, version_file,
                   current_version, bump, next_version, changes, md, calls,
                   writes, attempts, all_tags, exit_code>>

\* the iterator is exhausted
FetchEnd ==
    /\ pc = "fetch"
    /\ feed = <<>>
    /\ pc' = "cap"
    /\ UNCHANGED <<commit_parser, feed, tag_hash, commits, version_file,
                   current_version, bump, next_version, changes, md, calls,
                   writes, attempts, all_tags, exit_code>>

\* the iterator awaits the next page of commits and the request raises: the
\* first request, or one for a later page while items are still to come (the
\* forge decides where the pages end)
FetchFails ==
    /\ pc = "fetch"
    /\ feed # <<>> \/ commits = <<>>
    /\ Raise
    /\ UNCHANGED <<commit_parser, feed, tag_hash, commits, version_file,
                   current_version, bump, next_version, changes, md, calls,
                   writes, attempts, all_tags>>

\* TooMany with >= for >
TooManyOffByOne(cs) == Len(cs) >= MaxCommits

\* "if len(commits) > 100"
TooMany(cs) == Len(cs) > MaxCommits

\* "print(len(commits), "are a lot. Aborting!"); sys.exit(1)"
CheckCap ==
    /\ pc = "cap"
    /\ IF TooMany(commits)
       THEN pc' = "aborted" /\ exit_code' = 1
       ELSE pc' = "evaluate" /\ exit_code' = exit_code
    /\ UNCHANGED <<commit_parser, feed, tag_hash, commits, version_file,
                   current_version, bump, next_version, changes, md, calls,
                   writes, attempts, all_tags>>

\* NothingToDo with the early return missing
NothingToDoNever(b) == FALSE

\* "if bump is None: return"
NothingToDo(b) == b = None

\* "bump = evaluate_version_bump(commits)" and the return when it is None
Evaluate ==
    /\ pc = "evaluate"
    /\ bump' = evaluate_version_bump(commits, commit_parser)
    /\ IF NothingToDo(bump')
       THEN pc' = "done" /\ exit_code' = 0
       ELSE pc' = "prepare" /\ exit_code' = exit_code
    /\ UNCHANGED <<commit_parser, feed, tag_hash, commits, version_file,
                   current_version, next_version, changes, md, calls, writes,
                   attempts, all_tags>>

\* get_new_version, generate_changelog, markdown_changelog(header=True)
Prepare ==
    /\ pc = "prepare"
    /\ next_version' = get_new_version(current_version, bump)
    /\ changes' = generate_changelog(commits, commit_parser)
    /\ md' = markdown_changelog(next_version', changes', TRUE)
    /\ pc' = "write"
    /\ UNCHANGED <<commit_parser, feed, tag_hash, commits, version_file,
                   current_version, bump, calls, writes, attempts, all_tags,
                   exit_code>>

\* Then with the push left out: the poll follows the tag
ThenWithoutPush(p) ==
    CASE p = "write"  -> "add"
      [] p = "add"    -> "commit"
      [] p = "commit" -> "tag"
      [] p = "tag"    -> "poll"
      [] p = "push"   -> "poll"
      [] p = "post"   -> "done"

\* the statement main reaches after the statement at p has completed
Then(p) ==
    CASE p = "write"  -> "add"
      [] p = "add"    -> "commit"
      [] p = "commit" -> "tag"
      [] p = "tag"    -> "push"
      [] p = "push"   -> "poll"
      [] p = "post"   -> "done"

\* the first k characters of a text
Prefix(text, k) == SubSeq(text, 1, k)

\* "version_file.write_text(next_version)": the text is written, or the call
\* raises, before the file is opened (content kept) or after it is opened and
\* emptied, with the first k characters of the text in it: none (k = 0), some,
\* or all of them, when it is the close of the file that raises
WriteVersion ==
    /\ pc = "write"
    /\ writes' = writes + 1
    /\ \/ /\ version_file' = next_version
          /\ pc' = Then(pc)
          /\ exit_code' = exit_code
       \/ /\ version_file' = version_file
          /\ Raise
       \/ /\ \E k \in 0..Len(next_version) :
                version_file' = Prefix(next_version, k)
          /\ Raise
    /\ UNCHANGED <<commit_parser, feed, tag_hash, commits, current_version,
                   bump, next_version, changes, md, calls, attempts, all_tags>>

\* a call to git at position p: it is issued, and returns or raises
GitCall(p) ==
    /\ pc = p
    /\ calls' = Append(calls, p)
    /\ \E ok \in BOOLEAN :
          IF ok THEN pc' = Then(p) /\ exit_code' = exit_code ELSE Raise
    /\ UNCHANGED <<commit_parser, feed, tag_hash, commits, version_file,
                   current_version, bump, next_version, changes, md, writes,
                   attempts, all_tags>>

GitAdd    == GitCall("add")
GitCommit == GitCall("commit")
GitTag    == GitCall("tag")
GitPush   == GitCall("push")

\* PollAgain with one iteration too many
PollAgainOffByOne(n) == n <= PollAttempts

\* "for _ in range(5)": whether another iteration follows n queries
PollAgain(n) == n < PollAttempts

\* "if next_tag in all_tags: break"
TagVisible(tags, next) == next \in tags

\* "_all_tags = await gh.getitem(...)": the reply holds the old tag and perhaps
\* the new one, or the request raises
PollTags ==
    /\ pc = "poll"
    /\ calls' = Append(calls, "tags")
    /\ attempts' = attempts + 1
    /\ \E reply \in {"old", "both", "error"} :
          /\ all_tags' = CASE reply = "old"   -> {current_version}
                           [] reply = "both"  -> {current_version, next_version}
                           [] reply = "error" -> all_tags
          /\ IF reply = "error" THEN Raise
             ELSE /\ pc' = IF TagVisible(all_tags', next_version)
                           THEN "post" ELSE "sleep"
                  /\ exit_code' = exit_code
    /\ UNCHANGED <<commit_parser, feed, tag_hash, commits, version_file,
                   current_version, bump, next_version, changes, md, writes>>

\* "await asyncio.sleep(0.5)", then the next iteration or the end of the loop
Sleep ==
    /\ pc = "sleep"
    /\ pc' = IF PollAgain(attempts) THEN "poll" ELSE "post"
    /\ UNCHANGED <<commit_parser, feed, tag_hash, commits, version_file,
                   current_version, bump, next_version, changes, md, calls,
                   writes, attempts, all_tags, exit_code>>

\* "await gh.post(f"/repos/{repo}/releases", ...)"
PostRelease ==
    /\ pc = "post"
    /\ calls' = Append(calls, "release")
    /\ \E ok \in BOOLEAN :
          IF ok THEN pc' = Then(pc) /\ exit_code' = 0 ELSE Raise
    /\ UNCHANGED <<commit_parser, feed, tag_hash, commits, version_file,
                   current_version, bump, next_version, changes, md, writes,
                   attempts, all_tags>>

Next ==
    \/ Start \/ FetchCommit \/ FetchTag \/ FetchEnd \/ FetchFails
    \/ CheckCap \/ Evaluate \/ Prepare \/ WriteVersion
    \/ GitAdd \/ GitCommit \/ GitTag \/ GitPush
    \/ PollTags \/ Sleep \/ PostRelease

Spec == Init /\ [][Next]_vars

\* the run is one sequential task: once it is in the poll, each await returns
\* (or raises) and the statement after it is executed
FairSpec ==
    Spec /\ WF_vars(PollTags) /\ WF_vars(Sleep) /\ WF_vars(PostRelease)

----------------------------------------------------------------------------
(* Properties of a run of main *)

Count(seq, x) == Cardinality({i \in DOMAIN seq : seq[i] = x})

\* the place of a call in the order add, commit, tag, push, tags, release
Rank(call) ==
    CASE call = "add"     -> 1
      [] call = "commit"  -> 2
      [] call = "tag"     -> 3
      [] call = "push"    -> 4
      [] call = "tags"    -> 5
      [] call = "release" -> 6

\* nothing has been changed: no write of the version file, none of the calls
Untouched ==
    /\ writes = 0
    /\ calls = <<>>
    /\ attempts = 0
    /\ pc # "start" => version_file = current_version

\* C1: a run that has collected more than 100 commits never goes past the
\* check of their number: it ends there with exit code 1 (or earlier, with a
\* request of the fetch raising, also with exit code 1), the version file
\* unwritten and none of add, commit, tag, push, tag list or release called;
\* and a run ends at the check only when it has collected more than 100.
C1_CapAbortsBeforeMutation ==
    /\ Len(commits) > MaxCommits =>
          /\ pc \in {"fetch", "cap", "aborted", "failed"}
          /\ Untouched
          /\ pc \in {"aborted", "failed"} => exit_code = 1
          /\ pc = "failed" => feed # <<>>
    /\ pc = "aborted" =>
          /\ Len(commits) > MaxCommits
          /\ exit_code = 1
    /\ Len(commits) <= MaxCommits => pc # "aborted"

C1_Witness ==
    /\ pc = "aborted"
    /\ Len(commits) = MaxCommits + 1
    /\ exit_code = 1
    /\ writes = 0

\* C2: while the bump is None (before the evaluation, and after it when it
\* returned None) the version file has its content and no call has been made,
\* and after an evaluation that returned None the run is over, with exit code 0.
C2_NoBumpNoSideEffects ==
    bump = None =>
       /\ Untouched
       /\ pc \in {"start", "fetch", "cap", "evaluate", "aborted", "failed", "done"}
       /\ pc = "done" => exit_code = 0

C2_Witness ==
    /\ pc = "done"
    /\ bump = None
    /\ \E i \in DOMAIN commits : Parse(commit_parser, commits[i].message).ok
    /\ version_file = current_version

\* C3: the calls are issued in the order add, commit, tag, push, tag list (one
\* or more times), release, none skipped and none but the tag list repeated;
\* the version file is written once, in a run with a bump and before the
\* first of the calls, which are issued only when the write has put the new
\* version in the file (a write that raises leaves the old text, or the
\* beginning of the new one, or all of it, and no call follows); a run with a
\* bump that ends normally has made them all.
C3_SideEffectOrder ==
    /\ writes <= 1
    /\ writes = 1 <=>
          (bump # None /\ pc \notin {"evaluate", "prepare", "write"})
    /\ calls # <<>> => writes = 1 /\ calls[1] = "add"
    /\ (calls # <<>> \/ pc = "add") => version_file = next_version
    /\ (writes = 1 /\ version_file # next_version) =>
          /\ pc = "failed"
          /\ calls = <<>>
          /\ \/ version_file = current_version
             \/ \E k \in 0..(Len(next_version) - 1) :
                   version_file = Prefix(next_version, k)
    /\ (writes = 1 /\ calls = <<>>) => pc \in {"add", "failed"}
    /\ \A i \in DOMAIN calls : i > 1 =>
          /\ Rank(calls[i - 1]) <= Rank(calls[i])
          /\ Rank(calls[i]) <= Rank(calls[i - 1]) + 1
          /\ Rank(calls[i - 1]) = Rank(calls[i]) => calls[i] = "tags"
    /\ (pc = "done" /\ bump # None) =>
          /\ writes = 1
          /\ calls # <<>>
          /\ calls[Len(calls)] = "release"

C3_Witness ==
    /\ pc = "done"
    /\ bump = "minor"
    /\ calls = <<"add", "commit", "tag", "push", "tags", "tags", "release">>
    /\ version_file = next_version
    /\ version_file # current_version

PollOver == pc = "post" \/ (pc = "sleep" /\ ~PollAgain(attempts))

C4_PollSafety ==
    /\ attempts <= PollAttempts
    /\ Count(calls, "tags") = attempts
    /\ Count(calls, "release") <= 1
    /\ TagVisible(all_tags, next_version) => pc \notin {"poll", "sleep"}
    /\ pc = "poll" => attempts < PollAttempts
    /\ pc = "post" => TagVisible(all_tags, next_version) \/ attempts = PollAttempts
    /\ Count(calls, "release") = 1 =>
          TagVisible(all_tags, next_version) \/ attempts = PollAttempts

\* C4: the poll asks for the tag list at most 5 times, asks no more once the
\* new tag is in a reply, and comes to an end; when it has ended, with the tag
\* seen or after 5 replies without it, the create-release call follows, once.
C4_PollThenRelease ==
    /\ []C4_PollSafety
    /\ (pc \in {"poll", "sleep"}) ~> (pc \notin {"poll", "sleep"})
    /\ PollOver ~> (Count(calls, "release") = 1)

C4_Witness ==
    /\ pc = "done"
    /\ attempts = PollAttempts
    /\ ~TagVisible(all_tags, next_version)
    /\ Count(calls, "release") = 1

----------------------------------------------------------------------------
(* Properties of the three functions *)

\* the parser's result for the i-th commit
ParsedAt(i) == Parse(commit_parser, commits[i].message)

\* the commits the parser recognizes
Recognized == {i \in DOMAIN commits : ParsedAt(i).ok}

\* the level of a severity, None without one
LevelOrNone(sev) == IF sev \in DOMAIN LEVELS THEN LEVELS[sev] ELSE None

Permuted(cs, p) == [i \in DOMAIN cs |-> cs[p[i]]]

\* C5: the bump is None when no commit is recognized, and otherwise the level
\* of a severity that some recognized commit has and none exceeds; every
\* permutation of the commits gives the same bump.
C5_MaxSeverityAnyOrder ==
    pc # "args" =>
       /\ Recognized = {} => bump = None
       /\ Recognized # {} =>
             \E i \in Recognized :
                /\ \A j \in Recognized : ParsedAt(j).bump <= ParsedAt(i).bump
                /\ bump = LevelOrNone(ParsedAt(i).bump)
       /\ \A p \in Permutations(DOMAIN commits) :
             evaluate_version_bump(Permuted(commits, p), commit_parser) = bump

C5_Witness ==
    /\ pc = "evaluated"
    /\ Len(commits) = 3
    /\ commits[1].message = M_feat
    /\ commits[2].message = M_wip
    /\ commits[3].message = M_fix
    /\ bump = "minor"

\* the severities with a level among those of the recognized commits
MappedSeverities == {ParsedAt(i).bump : i \in Recognized} \cap DOMAIN LEVELS

\* C6: a recognized commit whose severity has no level counts as no bump for
\* itself alone: the bump is the level of the highest severity that has one
\* among the recognized commits, and None only when there is none.
C6_UnmappedSeverityAlone ==
    pc # "args" =>
       bump = IF MappedSeverities = {} THEN None
              ELSE LEVELS[CHOOSE m \in MappedSeverities :
                             \A n \in MappedSeverities : n <= m]

\* the entries of items that carry the hash sha, in their order
EntriesOf(items, sha) == SelectSeq(items, LAMBDA e : e[1] = sha)

\* C7: under "breaking", a recognized commit with breaking paragraphs has one
\* entry for each of them, in order; one of severity 3 without any has one
\* entry, its first description as it is; any other commit has none.
C7_BreakingSection ==
    pc = "generated" =>
       \A i \in DOMAIN commits :
          LET m    == ParsedAt(i)
              sha  == commits[i].sha
              mine == EntriesOf(Items(changes, BREAKING), sha)
          IN  IF m.ok /\ m.breaking_descriptions # <<>>
              THEN mine = [k \in DOMAIN m.breaking_descriptions |->
                              <<sha, m.breaking_descriptions[k]>>]
              ELSE IF m.ok /\ m.bump = BreakingBump
                   THEN mine = << <<sha, m.descriptions[1]>> >>
                   ELSE mine = <<>>

\* the first commit of type k among the recognized ones
FirstOfType(k) ==
    CHOOSE i \in Recognized :
       /\ ParsedAt(i).type = k
       /\ \A j \in Recognized : ParsedAt(j).type = k => i <= j

\* C8: the keys after "breaking" are the types of the recognized commits, in
\* the order of their first commits; the entries of a key are in the order of
\* the commits; a recognized commit has exactly one entry under the key of its
\* type, its hash with its first description capitalized, and an unrecognized
\* commit has no entry at all.
C8_TypeKeysInInputOrder ==
    pc = "generated" =>
       /\ \A a, b \in DOMAIN changes :
             /\ a # b => changes[a].key # changes[b].key
             /\ (a < b /\ changes[a].key # BREAKING /\ changes[b].key # BREAKING) =>
                   FirstOfType(changes[a].key) < FirstOfType(changes[b].key)
       /\ \A a \in DOMAIN changes :
             /\ changes[a].key # BREAKING =>
                   \E i \in Recognized : ParsedAt(i).type = changes[a].key
             /\ \A x, y \in DOMAIN changes[a].items :
                   x < y => changes[a].items[x][1] <= changes[a].items[y][1]
       /\ \A i \in DOMAIN commits :
             IF i \in Recognized
             THEN EntriesOf(Items(changes, ParsedAt(i).type), commits[i].sha)
                     = << <<commits[i].sha, UpperFirst(ParsedAt(i).descriptions[1])>> >>
             ELSE \A a \in DOMAIN changes :
                     EntriesOf(changes[a].items, commits[i].sha) = <<>>

\* the keys of the changelog that have entries, with them, in key order
Filled == SelectSeq(changes, LAMBDA e : Len(e.items) > 0)

\* the number of lines of the first n filled sections
RECURSIVE LinesBefore(_)
LinesBefore(n) ==
    IF n = 0 THEN 0 ELSE LinesBefore(n - 1) + 1 + Len(Filled[n].items)

\* the output without the version line
Body == IF pc = "rendered_header" THEN Tail(md) ELSE md

\* C9: the output has one header for each key that has entries and none for
\* any other; the headers are in key order, and each is followed by one line
\* for each entry of its key, in entry order, and by nothing else.
C9_HeadersForFilledKeys ==
    pc \in {"rendered", "rendered_header"} =>
       /\ pc = "rendered_header" => md # <<>> /\ md[1].kind = "##"
       /\ Len(Body) = LinesBefore(Len(Filled))
       /\ Cardinality({l \in DOMAIN Body : Body[l].kind = "###"}) = Len(Filled)
       /\ \A n \in DOMAIN Filled :
             LET at == LinesBefore(n - 1) + 1
             IN  /\ Body[at].kind = "###"
                 /\ Body[at].text = Capitalize(Filled[n].key)
                 /\ \A e \in DOMAIN Filled[n].items :
                       /\ Body[at + e].kind = "*"
                       /\ Body[at + e].text = Filled[n].items[e][2]
                       /\ Body[at + e].sha = Filled[n].items[e][1]

C9_Witness ==
    /\ pc = "rendered"
    /\ Len(changes) = 3
    /\ changes[1].items = <<>>
    /\ changes[2].items = <<>>
    /\ Len(changes[3].items) = 2
    /\ Len(md) = 3

\* the commit has an entry somewhere in the changelog
HasEntry(i) ==
    \E a \in DOMAIN changes : EntriesOf(changes[a].items, commits[i].sha) # <<>>

\* C10: the commits evaluate_version_bump counts are those with an entry in the
\* changelog; when the bump is major "breaking" has an entry, and when there
\* is a bump the key of some recognized commit's type has one.
C10_BumpAndChangelogAgree ==
    pc = "generated" =>
       /\ \A i \in DOMAIN commits : i \in Recognized <=> HasEntry(i)
       /\ Len(CollectBumps(commits, commit_parser, 1, Len(commits)))
             = Cardinality({i \in DOMAIN commits : HasEntry(i)})
       /\ bump = "major" => Items(changes, BREAKING) # <<>>
       /\ bump # None =>
             \E i \in Recognized : Items(changes, ParsedAt(i).type) # <<>>

C10_Witness ==
    /\ pc = "generated"
    /\ bump = "major"
    /\ Len(commits) = 2
    /\ commits[1].message = M_wip
    /\ commits[2].message = M_bang
    /\ Items(changes, BREAKING) = << <<2, <<"D","r","o","p">> >> >>

============================================================================
